---- MODULE Spec2Model ----
(***************************************************************************)
(* Model of wrangler's type generation (generateTypes / writeDTSFile).     *)
(*                                                                         *)
(* JavaScript strings are TLA+ strings: concatenation is \o, and Len,      *)
(* SubSeq give String.length and String.slice, so includes, split and      *)
(* join are computed character by character as the runtime computes them. *)
(***************************************************************************)
EXTENDS Naturals, Integers, Sequences, FiniteSets, TLC

VARIABLES
    fs,      \* fs[d]: worker-configuration.d.ts in the directory d levels above the cwd
    cwd,     \* names of the directories from the root down to the current directory
    now,     \* the clock read by new Date()
    config,  \* configToDTS, the loaded configuration
    entry,   \* "none" without a configured entry point, else the format getEntry finds
    last     \* what the last run of generateTypes did

vars == <<fs, cwd, now, config, entry, last>>

(***************************************************************************)
(* Bounds of the model.                                                    *)
(***************************************************************************)
MaxDepth == 1      \* ancestor directories above the current directory
MaxTime == 1       \* ticks of the clock
MaxEntries == 2    \* entries of one binding collection
MaxVars == 2       \* plain variables of one configuration
MaxRules == 1      \* import rules of one configuration

(***************************************************************************)
(* Strings.                                                                *)
(***************************************************************************)
\* String.prototype.includes
Includes(s, t) ==
    \E i \in 0..(Len(s) - Len(t)) : SubSeq(s, i + 1, i + Len(t)) = t

\* index of the first occurrence of t in s (1-based), 0 when there is none
IndexOf(s, t) ==
    IF Includes(s, t)
    THEN CHOOSE i \in 1..(Len(s) - Len(t) + 1) :
            /\ SubSeq(s, i, i + Len(t) - 1) = t
            /\ \A j \in 1..(i - 1) : SubSeq(s, j, j + Len(t) - 1) # t
    ELSE 0

\* String.prototype.split with a non-empty separator
RECURSIVE Split(_, _)
Split(s, sep) ==
    IF ~Includes(s, sep)
    THEN <<s>>
    ELSE LET i == IndexOf(s, sep)
         IN  <<SubSeq(s, 1, i - 1)>> \o Split(SubSeq(s, i + Len(sep), Len(s)), sep)

\* mutant: at(0)
AtFirst(a) == a[1]

\* Array.prototype.at(-1) of a non-empty array
AtLast(a) == a[Len(a)]

\* Array.prototype.join
RECURSIVE Join(_, _)
Join(a, sep) ==
    IF Len(a) = 0 THEN ""
    ELSE IF Len(a) = 1 THEN a[1]
    ELSE a[1] \o sep \o Join(Tail(a), sep)

\* decimal rendering of a natural number
Digit(d) == SubSeq("0123456789", d + 1, d + 1)

RECURSIVE NatToString(_)
NatToString(n) ==
    IF n < 10 THEN Digit(n) ELSE NatToString(n \div 10) \o Digit(n % 10)

RECURSIVE Concat(_)
Concat(ss) == IF Len(ss) = 0 THEN <<>> ELSE Head(ss) \o Concat(Tail(ss))

(***************************************************************************)
(* JavaScript values of plain variables: typeof, String(v) as a template   *)
(* literal renders it, and JSON.stringify(v).                              *)
(***************************************************************************)
StringValue(text) ==
    [type |-> "string", null |-> FALSE, str |-> text, json |-> "\"" \o text \o "\""]
NumberValue(text) ==
    [type |-> "number", null |-> FALSE, str |-> text, json |-> text]
BooleanValue(text) ==
    [type |-> "boolean", null |-> FALSE, str |-> text, json |-> text]
ObjectValue(jsonText) ==
    [type |-> "object", null |-> FALSE, str |-> "[object Object]", json |-> jsonText]
NullValue ==
    [type |-> "object", null |-> TRUE, str |-> "null", json |-> "null"]

(***************************************************************************)
(* The configuration: an object, its own keys in their order; a field is   *)
(* [key, val].  An absent key is undefined.                                *)
(***************************************************************************)
Has(cfg, k) == \E i \in 1..Len(cfg) : cfg[i].key = k

Get(cfg, k) == cfg[CHOOSE i \in 1..Len(cfg) : cfg[i].key = k].val

\* obj.prop !== undefined, for an object given as a record
HasProp(obj, prop) == prop \in DOMAIN obj

(***************************************************************************)
(* generateTypes: the environment members, one block of the source per     *)
(* binding kind.                                                           *)
(***************************************************************************)
KvNamespaces(cfg) ==
    IF Has(cfg, "kv_namespaces")
    THEN LET a == Get(cfg, "kv_namespaces")
         IN  [i \in 1..Len(a) |-> a[i].binding \o ": KVNamespace;"]
    ELSE <<>>

VarMember(varName, varValue) ==
    (IF varValue.type \in {"string", "number", "boolean"}
     THEN <<varName \o ": \"" \o varValue.str \o "\";">>
     ELSE <<>>)
    \o
    (IF varValue.type = "object" /\ ~varValue.null
     THEN <<varName \o ": " \o varValue.json \o ";">>
     ELSE <<>>)

Vars(cfg) ==
    IF Has(cfg, "vars")
    THEN LET o == Get(cfg, "vars")
         IN  Concat([i \in 1..Len(o) |-> VarMember(o[i].name, o[i].value)])
    ELSE <<>>

DurableObjects(cfg) ==
    IF Has(cfg, "durable_objects") /\ HasProp(Get(cfg, "durable_objects"), "bindings")
    THEN LET a == Get(cfg, "durable_objects").bindings
         IN  [i \in 1..Len(a) |-> a[i].name \o ": DurableObjectNamespace;"]
    ELSE <<>>

R2Buckets(cfg) ==
    IF Has(cfg, "r2_buckets")
    THEN LET a == Get(cfg, "r2_buckets")
         IN  [i \in 1..Len(a) |-> a[i].binding \o ": R2Bucket;"]
    ELSE <<>>

D1Databases(cfg) ==
    IF Has(cfg, "d1_databases")
    THEN LET a == Get(cfg, "d1_databases")
         IN  [i \in 1..Len(a) |-> a[i].binding \o ": D1Database;"]
    ELSE <<>>

Services(cfg) ==
    IF Has(cfg, "services")
    THEN LET a == Get(cfg, "services")
         IN  [i \in 1..Len(a) |-> a[i].binding \o ": Fetcher;"]
    ELSE <<>>

Constellation(cfg) ==
    IF Has(cfg, "constellation")
    THEN LET a == Get(cfg, "constellation")
         IN  [i \in 1..Len(a) |-> a[i].binding \o ": Fetcher;"]
    ELSE <<>>

AnalyticsEngineDatasets(cfg) ==
    IF Has(cfg, "analytics_engine_datasets")
    THEN LET a == Get(cfg, "analytics_engine_datasets")
         IN  [i \in 1..Len(a) |-> a[i].binding \o ": AnalyticsEngineDataset;"]
    ELSE <<>>

DispatchNamespaces(cfg) ==
    IF Has(cfg, "dispatch_namespaces")
    THEN LET a == Get(cfg, "dispatch_namespaces")
         IN  [i \in 1..Len(a) |-> a[i].binding \o ": DispatchNamespace;"]
    ELSE <<>>

\* mutant: one member for every log-forwarding binding
LogfwdrPerBinding(cfg) ==
    IF Has(cfg, "logfwdr") /\ HasProp(Get(cfg, "logfwdr"), "bindings")
    THEN LET a == Get(cfg, "logfwdr").bindings
         IN  [i \in 1..Len(a) |-> "LOGFWDR_SCHEMA: any;"]
    ELSE <<>>

Logfwdr(cfg) ==
    IF /\ Has(cfg, "logfwdr")
       /\ HasProp(Get(cfg, "logfwdr"), "bindings")
       /\ Len(Get(cfg, "logfwdr").bindings) # 0
    THEN <<"LOGFWDR_SCHEMA: any;">>
    ELSE <<>>

DataBlobs(cfg) ==
    IF Has(cfg, "data_blobs")
    THEN LET o == Get(cfg, "data_blobs")
         IN  [i \in 1..Len(o) |-> o[i].name \o ": ArrayBuffer;"]
    ELSE <<>>

TextBlobs(cfg) ==
    IF Has(cfg, "text_blobs")
    THEN LET o == Get(cfg, "text_blobs")
         IN  [i \in 1..Len(o) |-> o[i].name \o ": string;"]
    ELSE <<>>

Unsafe(cfg) ==
    IF Has(cfg, "unsafe") /\ HasProp(Get(cfg, "unsafe"), "bindings")
    THEN LET a == Get(cfg, "unsafe").bindings
         IN  [i \in 1..Len(a) |-> a[i].name \o ": any;"]
    ELSE <<>>

Queues(cfg) ==
    IF Has(cfg, "queues") /\ HasProp(Get(cfg, "queues"), "producers")
    THEN LET a == Get(cfg, "queues").producers
         IN  [i \in 1..Len(a) |-> a[i].binding \o ": Queue;"]
    ELSE <<>>

\* the members one key of the configuration contributes
MembersOfKey(cfg, k) ==
    CASE k = "kv_namespaces" -> KvNamespaces(cfg)
      [] k = "vars" -> Vars(cfg)
      [] k = "durable_objects" -> DurableObjects(cfg)
      [] k = "r2_buckets" -> R2Buckets(cfg)
      [] k = "d1_databases" -> D1Databases(cfg)
      [] k = "services" -> Services(cfg)
      [] k = "constellation" -> Constellation(cfg)
      [] k = "analytics_engine_datasets" -> AnalyticsEngineDatasets(cfg)
      [] k = "dispatch_namespaces" -> DispatchNamespaces(cfg)
      [] k = "logfwdr" -> Logfwdr(cfg)
      [] k = "data_blobs" -> DataBlobs(cfg)
      [] k = "text_blobs" -> TextBlobs(cfg)
      [] k = "unsafe" -> Unsafe(cfg)
      [] k = "queues" -> Queues(cfg)
      [] OTHER -> <<>>

\* mutant: the kinds are visited in the order of the configuration's keys
EnvTypeStructureInKeyOrder(cfg) ==
    Concat([i \in 1..Len(cfg) |-> MembersOfKey(cfg, cfg[i].key)])

\* the order in which the source visits the binding kinds
KindOrder ==
    << "kv_namespaces", "vars", "durable_objects", "r2_buckets", "d1_databases",
       "services", "constellation", "analytics_engine_datasets",
       "dispatch_namespaces", "logfwdr", "data_blobs", "text_blobs", "unsafe",
       "queues" >>

EnvTypeStructure(cfg) ==
    Concat([i \in 1..Len(KindOrder) |-> MembersOfKey(cfg, KindOrder[i])])

(***************************************************************************)
(* generateTypes: the module declarations of the import rules.             *)
(***************************************************************************)
moduleTypeMap ==
    [Text |-> "string", Data |-> "ArrayBuffer", CompiledWasm |-> "WebAssembly.Module"]

ModuleDeclaration(glob, typeScriptType) ==
    "declare module \"*." \o AtLast(Split(glob, ".")) \o "\" {\n"
    \o "\tconst value: " \o typeScriptType \o ";\n"
    \o "\texport default value;\n"
    \o "}"

RuleDeclarations(ruleObject) ==
    IF ruleObject.type \in DOMAIN moduleTypeMap
    THEN [g \in 1..Len(ruleObject.globs) |->
            ModuleDeclaration(ruleObject.globs[g], moduleTypeMap[ruleObject.type])]
    ELSE <<>>

ModulesTypeStructure(cfg) ==
    IF Has(cfg, "rules")
    THEN LET rules == Get(cfg, "rules")
         IN  Concat([r \in 1..Len(rules) |-> RuleDeclarations(rules[r])])
    ELSE <<>>

(***************************************************************************)
(* The file system: one worker-configuration.d.ts per directory on the    *)
(* path from the current directory (depth 0) up to the root.               *)
(***************************************************************************)
FileName == "worker-configuration.d.ts"

NoFile == [exists |-> FALSE, content |-> ""]

File(text) == [exists |-> TRUE, content |-> text]

Marker == "Generated by Wrangler"

\* mutant: looks in the current directory only
FindUpSyncCwdOnly(files) ==
    IF files[0].exists THEN [found |-> TRUE, depth |-> 0]
    ELSE [found |-> FALSE, depth |-> 0]

\* findUpSync: the nearest directory, from the cwd upwards, that holds the file
FindUpSync(files) ==
    IF \E d \in DOMAIN files : files[d].exists
    THEN [found |-> TRUE,
          depth |-> CHOOSE d \in DOMAIN files :
                        /\ files[d].exists
                        /\ \A e \in DOMAIN files : files[e].exists => d <= e]
    ELSE [found |-> FALSE, depth |-> 0]

\* the absolute path findUpSync returns for the file of the directory d levels up
PathOf(dirs, d) ==
    LET up == SubSeq(dirs, 1, Len(dirs) - d)
    IN  (IF Len(up) = 0 THEN "" ELSE "/" \o Join(up, "/")) \o "/" \o FileName

(***************************************************************************)
(* Errors.  A file-system error carries the message Node gives it:         *)
(* "<code>: <description>, open '<path>'".                                 *)
(***************************************************************************)
NoError == [thrown |-> FALSE, name |-> "", message |-> ""]

UserError(message) == [thrown |-> TRUE, name |-> "UserError", message |-> message]

ErrorDescription(code) ==
    CASE code = "ENOENT" -> "no such file or directory"
      [] code = "EACCES" -> "permission denied"

SystemError(code, path) ==
    [thrown |-> TRUE, name |-> "Error",
     message |-> code \o ": " \o ErrorDescription(code) \o ", open '" \o path \o "'"]

ForeignFileMessage ==
    "A non-wrangler worker-configuration.d.ts already exists, please rename and try again."

(***************************************************************************)
(* writeDTSFile.  `read` is what fs.readFileSync does when it is called:   *)
(* "ok", or the code of the error it throws.                               *)
(***************************************************************************)
\* the try block: the error it throws, if any
OwnershipTry(files, dirs, at, read) ==
    IF ~at.found THEN NoError
    ELSE IF read # "ok" THEN SystemError(read, PathOf(dirs, at.depth))
    ELSE IF ~Includes(files[at.depth].content, Marker)
         THEN UserError(ForeignFileMessage)
         ELSE NoError

\* mutant: the test of the message is inverted
OwnershipCatchInverted(error) ==
    IF error.thrown /\ Includes(error.message, "not found") THEN error ELSE NoError

\* the catch block: the error that leaves it, if any
OwnershipCatch(error) ==
    IF error.thrown /\ ~Includes(error.message, "not found") THEN error ELSE NoError

OwnershipCheck(files, dirs, at, read) ==
    OwnershipCatch(OwnershipTry(files, dirs, at, read))

Indent(envTypeStructure, prefix) ==
    [i \in 1..Len(envTypeStructure) |-> prefix \o envTypeStructure[i]]

\* mutant: the global shape without the module declarations
CombinedTypeStringsDroppingModules(envTypeStructure, modulesTypeStructure, formatType) ==
    IF formatType = "modules"
    THEN "interface Env {\n" \o Join(Indent(envTypeStructure, "\t"), "\n")
         \o "\n}\n" \o Join(modulesTypeStructure, "\n")
    ELSE "export {};\ndeclare global {\n"
         \o Join(Indent(envTypeStructure, "\tconst "), "\n")
         \o "\n}\n"

CombinedTypeStrings(envTypeStructure, modulesTypeStructure, formatType) ==
    IF formatType = "modules"
    THEN "interface Env {\n" \o Join(Indent(envTypeStructure, "\t"), "\n")
         \o "\n}\n" \o Join(modulesTypeStructure, "\n")
    ELSE "export {};\ndeclare global {\n"
         \o Join(Indent(envTypeStructure, "\tconst "), "\n")
         \o "\n}\n" \o Join(modulesTypeStructure, "\n")

\* `${new Date()}`
DateString(t) ==
    "Wed Nov 04 2026 07:26:" \o (IF t < 10 THEN "0" ELSE "") \o NatToString(t)
    \o " GMT+0000 (Coordinated Universal Time)"

\* mutant: the header line is left out
FileContentWithoutHeader(t, combinedTypeStrings) == combinedTypeStrings

FileContent(t, combinedTypeStrings) ==
    "// Generated by Wrangler on " \o DateString(t) \o "\n" \o combinedTypeStrings

\* mutant: the emptiness test is left out
ShouldWriteAlways(envTypeStructure, modulesTypeStructure) == TRUE

ShouldWrite(envTypeStructure, modulesTypeStructure) ==
    Len(envTypeStructure) # 0 \/ Len(modulesTypeStructure) # 0

\* the files after the run and the record of the run
WriteDTSFile(files, dirs, t, cfg, envTypeStructure, modulesTypeStructure, formatType, at, read) ==
    LET error == OwnershipCheck(files, dirs, at, read)
        combined == CombinedTypeStrings(envTypeStructure, modulesTypeStructure, formatType)
        writes == ~error.thrown /\ ShouldWrite(envTypeStructure, modulesTypeStructure)
        run == [config |-> cfg, format |-> formatType,
                env |-> envTypeStructure, mods |-> modulesTypeStructure,
                found |-> at, read |-> IF at.found THEN read ELSE "none",
                error |-> error,
                outcome |-> IF error.thrown THEN "aborted"
                            ELSE IF writes THEN "written" ELSE "skipped",
                written |-> IF writes THEN FileContent(t, combined) ELSE "",
                logged |-> IF writes THEN combined ELSE ""]
    IN  [files |-> IF writes THEN [files EXCEPT ![0] = File(FileContent(t, combined))]
                   ELSE files,
         run |-> run]

(***************************************************************************)
(* Inputs: the configurations and the files the runs start from.           *)
(***************************************************************************)
Name(prefix, i) == prefix \o NatToString(i)

ArrayKeys ==
    { "kv_namespaces", "r2_buckets", "d1_databases", "services", "constellation",
      "analytics_engine_datasets", "dispatch_namespaces" }

Keys == { KindOrder[i] : i \in 1..Len(KindOrder) } \cup { "rules" }

Prefix(k) ==
    CASE k = "kv_namespaces" -> "KV"
      [] k = "r2_buckets" -> "BUCKET"
      [] k = "d1_databases" -> "DB"
      [] k = "services" -> "SERVICE"
      [] k = "constellation" -> "MODEL"
      [] k = "analytics_engine_datasets" -> "METRICS"
      [] k = "dispatch_namespaces" -> "DISPATCH"

VarPool ==
    << [name |-> "FOO", value |-> StringValue("bar")],
       [name |-> "PORT", value |-> NumberValue("8080")],
       [name |-> "DEBUG", value |-> BooleanValue("true")],
       [name |-> "LIMITS", value |-> ObjectValue("{\"max\":10}")],
       [name |-> "NOTHING", value |-> NullValue] >>

RuleTypes == { "ESModule", "CommonJS", "CompiledWasm", "Text", "Data" }

GlobLists == { <<>>, <<"*.txt">>, <<"**/*.tar.gz", "LICENSE">> }

Rules == { [type |-> t, globs |-> g] : t \in RuleTypes, g \in GlobLists }

\* the value of key k with n entries
ValueOf(k, n) ==
    CASE k \in ArrayKeys -> [i \in 1..n |-> [binding |-> Name(Prefix(k), i)]]
      [] k = "vars" -> [i \in 1..n |-> VarPool[i]]
      [] k = "durable_objects" ->
            [bindings |-> [i \in 1..n |-> [name |-> Name("COUNTER", i)]]]
      [] k = "logfwdr" -> [bindings |-> [i \in 1..n |-> [name |-> Name("LOG", i)]]]
      [] k = "data_blobs" -> [i \in 1..n |-> [name |-> Name("DATA", i)]]
      [] k = "text_blobs" -> [i \in 1..n |-> [name |-> Name("TEXT", i)]]
      [] k = "unsafe" -> [bindings |-> [i \in 1..n |-> [name |-> Name("UNSAFE", i)]]]
      [] k = "queues" -> [producers |-> [i \in 1..n |-> [binding |-> Name("QUEUE", i)]]]
      [] k = "rules" -> [i \in 1..n |-> [type |-> "Text", globs |-> <<"*.txt">>]]

Injective(f) == \A i, j \in DOMAIN f : f[i] = f[j] => i = j

\* the values key k takes
FieldValues(k) ==
    CASE k = "vars" ->
            { [i \in DOMAIN f |-> VarPool[f[i]]] :
                f \in { g \in UNION { [1..n -> 1..Len(VarPool)] : n \in 0..MaxVars } :
                            Injective(g) } }
      [] k = "rules" -> UNION { [1..n -> Rules] : n \in 0..MaxRules }
      [] k = "unsafe" ->
            { ValueOf(k, n) : n \in 0..MaxEntries } \cup { [metadata |-> "m"] }
      [] k = "queues" ->
            { ValueOf(k, n) : n \in 0..MaxEntries } \cup { [consumers |-> <<>>] }
      [] OTHER -> { ValueOf(k, n) : n \in 0..MaxEntries }

Field(k, v) == [key |-> k, val |-> v]

\* every kind present, its keys in the order of the source
AllKinds == [i \in 1..Len(KindOrder) |-> Field(KindOrder[i], ValueOf(KindOrder[i], 1))]

MapperConfigs ==
    { <<>>, AllKinds }
    \cup UNION { { <<Field(k, v)>> : v \in FieldValues(k) } : k \in Keys }
    \cup { <<Field(p[1], ValueOf(p[1], 1)), Field(p[2], ValueOf(p[2], 1))>> :
              p \in { q \in Keys \X Keys : q[1] # q[2] } }

WriterConfigs ==
    { <<>>,
      <<Field("rules", <<[type |-> "ESModule", globs |-> <<"*.mjs">>]>>)>>,
      <<Field("kv_namespaces", ValueOf("kv_namespaces", 1))>>,
      <<Field("rules", ValueOf("rules", 1))>>,
      <<Field("vars", ValueOf("vars", 1)), Field("rules", ValueOf("rules", 1))>> }

Entries == { "none", "modules", "service-worker" }

ForeignContent == "interface Env {\n\tMY_KV: KVNamespace;\n}\n"

\* hand-written, and mentions the marker
AnnotatedContent == "// types, not Generated by Wrangler\n" \o ForeignContent

GeneratedContent ==
    FileContent(0, CombinedTypeStrings(<<"OLD: KVNamespace;">>, <<>>, "modules"))

InitialFiles ==
    { NoFile, File(ForeignContent), File(AnnotatedContent), File(GeneratedContent) }

DirNames == { "app", "not found" }

NoRun ==
    [config |-> <<>>, format |-> "", env |-> <<>>, mods |-> <<>>,
     found |-> [found |-> FALSE, depth |-> 0], read |-> "none", error |-> NoError,
     outcome |-> "none", written |-> "", logged |-> ""]

(***************************************************************************)
(* The state machine.                                                      *)
(***************************************************************************)
Init ==
    /\ fs \in [0..MaxDepth -> InitialFiles]
    /\ cwd = [i \in 1..MaxDepth |-> "app"]
    /\ now = 0
    /\ config \in WriterConfigs
    /\ entry \in Entries
    /\ last = NoRun

InitFault ==
    /\ fs \in [0..MaxDepth -> InitialFiles]
    /\ cwd \in [1..MaxDepth -> DirNames]
    /\ now = 0
    /\ config \in WriterConfigs
    /\ entry \in Entries
    /\ last = NoRun

InitMapper ==
    /\ fs = [d \in 0..MaxDepth |-> NoFile]
    /\ cwd = [i \in 1..MaxDepth |-> "app"]
    /\ now = 0
    /\ config \in MapperConfigs
    /\ entry \in Entries
    /\ last = NoRun

EntrypointFormat(e) == IF e # "none" THEN e ELSE "modules"

\* one run of generateTypes whose reads succeed
GenerateTypes ==
    LET r == WriteDTSFile(fs, cwd, now, config, EnvTypeStructure(config),
                          ModulesTypeStructure(config), EntrypointFormat(entry),
                          FindUpSync(fs), "ok")
    IN  /\ fs' = r.files
        /\ last' = r.run
        /\ UNCHANGED <<cwd, now, config, entry>>

\* one run of generateTypes in which fs.readFileSync throws; with ENOENT the file
\* was removed after findUpSync saw it
GenerateTypesReadFails ==
    \E code \in {"ENOENT", "EACCES"} :
        LET at == FindUpSync(fs)
            files == IF code = "ENOENT" THEN [fs EXCEPT ![at.depth] = NoFile] ELSE fs
            r == WriteDTSFile(files, cwd, now, config, EnvTypeStructure(config),
                              ModulesTypeStructure(config), EntrypointFormat(entry),
                              at, code)
        IN  /\ at.found
            /\ fs' = r.files
            /\ last' = r.run
            /\ UNCHANGED <<cwd, now, config, entry>>

Tick ==
    /\ now < MaxTime
    /\ now' = now + 1
    /\ UNCHANGED <<fs, cwd, config, entry, last>>

EditConfig ==
    \E c \in WriterConfigs \ {config} :
        /\ config' = c
        /\ UNCHANGED <<fs, cwd, now, entry, last>>

ChangeEntry ==
    \E e \in Entries \ {entry} :
        /\ entry' = e
        /\ UNCHANGED <<fs, cwd, now, config, last>>

Reverse(a) == [i \in 1..Len(a) |-> a[Len(a) + 1 - i]]

ReorderKeys ==
    /\ Len(config) > 1
    /\ config' = Reverse(config)
    /\ UNCHANGED <<fs, cwd, now, entry, last>>

Next == GenerateTypes \/ Tick \/ EditConfig \/ ChangeEntry

NextFault == GenerateTypes \/ GenerateTypesReadFails \/ Tick \/ EditConfig \/ ChangeEntry

NextMapper == GenerateTypes \/ Tick \/ ReorderKeys

Spec == Init /\ [][Next]_vars

SpecFault == InitFault /\ [][NextFault]_vars

SpecMapper == InitMapper /\ [][NextMapper]_vars

(***************************************************************************)
(* Properties of the writer, under Spec: every read of an existing file    *)
(* succeeds.                                                               *)
(***************************************************************************)
StartsWith(s, t) == Len(t) <= Len(s) /\ SubSeq(s, 1, Len(t)) = t

LacksMarker(file) == file.exists /\ ~Includes(file.content, Marker)

\* the file of directory d is the nearest one, searching upward from the cwd
Nearest(files, d) == files[d].exists /\ \A e \in DOMAIN files : e < d => ~files[e].exists

\* the upward search finds a file whose content lacks the marker
FindsForeign(files) == \E d \in DOMAIN files : Nearest(files, d) /\ LacksMarker(files[d])

\* the upward search finds a file whose content holds the marker
FindsGenerated(files) ==
    \E d \in DOMAIN files : Nearest(files, d) /\ Includes(files[d].content, Marker)

\* C1: a run whose upward search finds a file without the marker ends with the
\* foreign-file UserError and writes nothing, whatever the format and the two
\* lists; and no step of any run changes a file that lacks the marker.
C1_ForeignFileIsNeverOverwritten ==
    [][ /\ (GenerateTypes /\ FindsForeign(fs)) =>
              /\ last'.outcome = "aborted"
              /\ last'.error = UserError(ForeignFileMessage)
              /\ last'.written = "" /\ last'.logged = ""
              /\ fs' = fs
        /\ \A d \in DOMAIN fs : LacksMarker(fs[d]) => fs'[d] = fs[d] ]_vars

\* C1 witness: a run with both lists empty was aborted by a foreign file, which
\* is still there.
C1_Witness ==
    /\ last.outcome = "aborted"
    /\ last.error.name = "UserError"
    /\ last.env = <<>> /\ last.mods = <<>>
    /\ FindsForeign(fs)

\* C2: a run with no environment members and no module declarations, started
\* where the upward search finds no foreign file, leaves every file as it was
\* and ends without error.
C2_EmptyRunWritesNothing ==
    [][ (GenerateTypes /\ ~FindsForeign(fs) /\ last'.env = <<>> /\ last'.mods = <<>>) =>
              /\ fs' = fs
              /\ ~last'.error.thrown
              /\ last'.outcome = "skipped"
              /\ last'.written = "" ]_vars

\* C2 witness: an empty run was skipped next to a generated file, which is
\* still there.
C2_Witness ==
    /\ last.outcome = "skipped"
    /\ last.env = <<>> /\ last.mods = <<>>
    /\ last.found.found /\ last.found.depth = 0
    /\ fs[0] = File(GeneratedContent)

HeaderPrefix == "// Generated by Wrangler on "

NothingFound(files) == \A d \in DOMAIN files : ~files[d].exists

\* C3: every file a run writes begins with the header that holds the marker; a
\* run started on such a file in the current directory passes the ownership
\* check and, with something to emit, overwrites it without error; and runs that
\* start where the upward search finds no file never end in the foreign-file
\* error.
C3_RegenerationIsIdempotent ==
    /\ [][ /\ (GenerateTypes /\ last'.outcome = "written") =>
                 /\ fs'[0].exists
                 /\ fs'[0].content = last'.written
                 /\ StartsWith(fs'[0].content, HeaderPrefix)
                 /\ Includes(fs'[0].content, Marker)
           /\ (GenerateTypes /\ fs[0].exists /\ StartsWith(fs[0].content, HeaderPrefix)) =>
                 /\ ~last'.error.thrown
                 /\ (last'.env # <<>> \/ last'.mods # <<>>) =>
                       last'.outcome = "written" /\ fs'[0] = File(last'.written) ]_vars
    /\ (NothingFound(fs) => [](last.error.name # "UserError"))

\* C3 witness: a run overwrote the file a previous run had written at an
\* earlier time.
C3_Witness ==
    /\ last.outcome = "written"
    /\ last.found.found /\ last.found.depth = 0
    /\ now > 0
    /\ fs[0].content = last.written
    /\ ~StartsWith(last.written, HeaderPrefix \o DateString(0))

\* C10: the check reads the nearest file of the upward search and the write
\* goes to the current directory.  With no file in the current directory and
\* one in an ancestor, the ancestors' files are unchanged; a foreign ancestor
\* file aborts the run and nothing is created in the current directory; a
\* generated one lets a run with something to emit create the file there.
C10_CheckReadsNearestWriteTargetsCwd ==
    [][ GenerateTypes =>
          /\ \A d \in DOMAIN fs : d # 0 => fs'[d] = fs[d]
          /\ last'.found.found = ~NothingFound(fs)
          /\ last'.found.found => Nearest(fs, last'.found.depth)
          /\ (~fs[0].exists /\ FindsForeign(fs)) =>
                last'.outcome = "aborted" /\ ~fs'[0].exists
          /\ (~fs[0].exists /\ FindsGenerated(fs)
                /\ (last'.env # <<>> \/ last'.mods # <<>>)) =>
                last'.outcome = "written" /\ fs'[0] = File(last'.written) ]_vars

\* C10 witness: a run created the file in the current directory next to a
\* generated file of an ancestor directory.
C10_Witness ==
    /\ last.outcome = "written"
    /\ last.found.found /\ last.found.depth > 0
    /\ fs[0] = File(last.written)
    /\ fs[last.found.depth] = File(GeneratedContent)

(***************************************************************************)
(* Properties of the mapper, under SpecMapper.  They are stated from the   *)
(* configuration itself: its collections, and the tables of the claims.    *)
(***************************************************************************)
\* the collection of kind k in the configuration, empty when there is none
Collection(cfg, k) ==
    IF ~Has(cfg, k) THEN <<>>
    ELSE LET v == Get(cfg, k)
         IN  CASE k \in {"durable_objects", "logfwdr", "unsafe"} ->
                    IF "bindings" \in DOMAIN v THEN v.bindings ELSE <<>>
               [] k = "queues" -> IF "producers" \in DOMAIN v THEN v.producers ELSE <<>>
               [] OTHER -> v

\* the identifier of an entry of kind k
IdOf(k, e) == IF k \in ArrayKeys \cup {"queues"} THEN e.binding ELSE e.name

ClaimedKinds ==
    << "kv_namespaces", "vars", "durable_objects", "r2_buckets", "d1_databases",
       "services", "constellation", "analytics_engine_datasets",
       "dispatch_namespaces", "logfwdr", "data_blobs", "text_blobs", "unsafe",
       "queues" >>

ClaimedType(k) ==
    CASE k = "kv_namespaces" -> "KVNamespace"
      [] k = "durable_objects" -> "DurableObjectNamespace"
      [] k = "r2_buckets" -> "R2Bucket"
      [] k = "d1_databases" -> "D1Database"
      [] k = "services" -> "Fetcher"
      [] k = "constellation" -> "Fetcher"
      [] k = "analytics_engine_datasets" -> "AnalyticsEngineDataset"
      [] k = "dispatch_namespaces" -> "DispatchNamespace"
      [] k = "queues" -> "Queue"
      [] k = "data_blobs" -> "ArrayBuffer"
      [] k = "text_blobs" -> "string"
      [] k = "unsafe" -> "any"
      [] k = "logfwdr" -> "any"

FixedTypeKinds ==
    { ClaimedKinds[i] : i \in 1..Len(ClaimedKinds) } \ {"vars", "logfwdr"}

Ran == last.outcome # "none"

Occurrences(a, x) == Cardinality({ i \in 1..Len(a) : a[i] = x })

RECURSIVE SumOver(_, _)
SumOver(f, a) == IF Len(a) = 0 THEN 0 ELSE f[Head(a)] + SumOver(f, Tail(a))

\* the identifier of a member: its text before the first colon
IdentifierOf(member) == SubSeq(member, 1, IndexOf(member, ":") - 1)

\* the identifiers kind k is to contribute, in the order of its collection
ExpectedIdentifiers(cfg, k) ==
    LET c == Collection(cfg, k)
    IN  CASE k = "logfwdr" -> IF Len(c) > 0 THEN <<"LOGFWDR_SCHEMA">> ELSE <<>>
          [] k = "vars" ->
                Concat([i \in 1..Len(c) |->
                          IF c[i].value.null THEN <<>> ELSE <<c[i].name>>])
          [] OTHER -> [i \in 1..Len(c) |-> IdOf(k, c[i])]

\* the two configurations have the same keys with the same values
SameConfiguration(c1, c2) ==
    \A k \in Keys : /\ Has(c1, k) = Has(c2, k)
                    /\ Has(c1, k) => Get(c1, k) = Get(c2, k)

\* the text after the first line
AfterFirstLine(text) == SubSeq(text, IndexOf(text, "\n") + 1, Len(text))

\* the members come kind by kind in the claimed sequence, whatever the order
\* of the configuration's keys, and within a kind in the order of its collection
MembersInClaimedOrder ==
    [i \in 1..Len(last'.env) |-> IdentifierOf(last'.env[i])]
        = Concat([i \in 1..Len(ClaimedKinds) |->
                    ExpectedIdentifiers(config, ClaimedKinds[i])])

\* this run and the one before it wrote, for the same configuration and format
RepeatedRun ==
    /\ GenerateTypes
    /\ last.outcome = "written" /\ last'.outcome = "written"
    /\ SameConfiguration(last.config, config)
    /\ last.format = last'.format

\* C4 as claimed: two runs for the same configuration and format write the
\* same bytes, and the members come in the claimed order.
C4_RunsAreByteIdentical ==
    [][ /\ GenerateTypes => MembersInClaimedOrder
        /\ RepeatedRun => last'.written = last.written ]_vars

\* C4 as amended: two runs for the same configuration and format log the same
\* text and write files that are equal after the header line, which holds the
\* time of the run; the members come kind by kind in the claimed sequence,
\* whatever the order of the configuration's keys, and within a kind in the
\* order of its collection.
C4_RunsAgreeAfterTheHeaderLine ==
    [][ /\ GenerateTypes => MembersInClaimedOrder
        /\ RepeatedRun =>
              /\ last'.logged = last.logged
              /\ AfterFirstLine(last'.written) = AfterFirstLine(last.written)
              /\ AfterFirstLine(last'.written) = last'.logged ]_vars

\* C4 witness: a later run wrote the configuration of every kind with its keys
\* in the reverse of the order of the source.
C4_Witness ==
    /\ last.outcome = "written"
    /\ Len(last.config) = Len(ClaimedKinds)
    /\ last.config[1].key = "queues"
    /\ now > 0
    /\ fs[0].content = last.written
    /\ ~StartsWith(last.written, HeaderPrefix \o DateString(0))

\* the lines of a body, read back: the lines before the members, the members
\* with the prefix of their lines taken off, and the text after the line that
\* closes the block
ReadBody(text, headLines, prefix) ==
    LET lines == Split(text, "\n")
        close == CHOOSE i \in (headLines + 1)..Len(lines) :
                    /\ lines[i] = "}"
                    /\ \A j \in (headLines + 1)..(i - 1) : lines[j] # "}"
        inner == SubSeq(lines, headLines + 1, close - 1)
    IN  [head |-> SubSeq(lines, 1, headLines),
         prefixed |-> inner = <<"">> \/ \A i \in 1..Len(inner) : StartsWith(inner[i], prefix),
         members |-> IF inner = <<"">> THEN <<>>
                     ELSE [i \in 1..Len(inner) |->
                             SubSeq(inner[i], Len(prefix) + 1, Len(inner[i]))],
         modules |-> Join(SubSeq(lines, close + 1, Len(lines)), "\n")]

ModulesShape(env, mods) ==
    [head |-> <<"interface Env {">>, prefixed |-> TRUE,
     members |-> env, modules |-> Join(mods, "\n")]

GlobalShape(env, mods) ==
    [head |-> <<"export {};", "declare global {">>, prefixed |-> TRUE,
     members |-> env, modules |-> Join(mods, "\n")]

\* C5: for the members and declarations of a run, format modules gives
\* `interface Env {` members `}` and then the module declarations; the other
\* format gives `export {};`, `declare global {`, each member after `const`,
\* `}` and then the same module declarations.  Read back, both bodies hold the
\* same members and the same module declarations; what the run logged and wrote
\* is the body of its format.
C5_FormatSelectsTheShape ==
    Ran =>
        LET asModules == CombinedTypeStrings(last.env, last.mods, "modules")
            asGlobal == CombinedTypeStrings(last.env, last.mods, "service-worker")
        IN  /\ ReadBody(asModules, 1, "\t") = ModulesShape(last.env, last.mods)
            /\ ReadBody(asGlobal, 2, "\tconst ") = GlobalShape(last.env, last.mods)
            /\ last.outcome = "written" =>
                  /\ last.logged = IF last.format = "modules" THEN asModules ELSE asGlobal
                  /\ AfterFirstLine(last.written) = last.logged

\* C5 witness: a run in the service-worker format wrote members and module
\* declarations.
C5_Witness ==
    /\ last.outcome = "written"
    /\ last.format = "service-worker"
    /\ Len(last.env) > 0 /\ Len(last.mods) > 0
    /\ StartsWith(last.logged, "export {};\ndeclare global {\n\tconst ")

IsPrimitive(value) == value.type \in {"string", "number", "boolean"}

\* the literal type of a primitive value: a string in double quotes, a number
\* or a boolean as it is written
LiteralType(value) ==
    IF value.type = "string" THEN "\"" \o value.str \o "\"" ELSE value.str

\* C6: every plain variable with a primitive value yields the member
\* `<name>: <literal>;`, the literal being the value as it is written: quoted
\* for a string ({FOO: "bar"} gives `FOO: "bar";`), unquoted for a number
\* ({PORT: 8080} gives `PORT: 8080;`).
C6_PrimitiveVarsKeepTheirLiteral ==
    Ran =>
        LET c == Collection(last.config, "vars")
        IN  \A i \in 1..Len(c) :
                IsPrimitive(c[i].value) =>
                    Occurrences(last.env, c[i].name \o ": " \o LiteralType(c[i].value) \o ";") = 1

\* the number of entries of every kind of the configuration
EntryCount(cfg) ==
    [k \in { ClaimedKinds[i] : i \in 1..Len(ClaimedKinds) } |-> Len(Collection(cfg, k))]

\* every entry of a kind with a fixed type yields `<identifier>: <type>;` once
FixedTypeMembers ==
    \A k \in FixedTypeKinds :
        LET c == Collection(last.config, k)
        IN  \A i \in 1..Len(c) :
                Occurrences(last.env, IdOf(k, c[i]) \o ": " \o ClaimedType(k) \o ";") = 1

\* C7 as claimed: every entry of a present kind yields one member with the type
\* of the table, and the members are as many as the entries of all kinds,
\* log-forwarding bindings and plain variables included.
C7_OneMemberPerEntry ==
    Ran =>
        /\ FixedTypeMembers
        /\ Len(last.env) = SumOver(EntryCount(last.config), ClaimedKinds)

NonNullVars(cfg) ==
    Cardinality({ i \in 1..Len(Collection(cfg, "vars")) :
                    ~Collection(cfg, "vars")[i].value.null })

\* C7 as amended: every entry of a kind other than log forwarding and plain
\* variables yields one member `<identifier>: <type>;` with the type of the
\* table; a non-empty list of log-forwarding bindings yields the one member
\* `LOGFWDR_SCHEMA: any;` however many bindings it has; every plain variable
\* whose value is not null yields one member and a null one yields none.  The
\* members are as many as those entries, plus one for a non-empty log-forwarding
\* list, plus the variables that are not null.
C7_OneMemberPerEntryButLogfwdr ==
    Ran =>
        LET counts == EntryCount(last.config)
            others == SumOver([counts EXCEPT !["logfwdr"] = 0, !["vars"] = 0], ClaimedKinds)
            vs == Collection(last.config, "vars")
        IN  /\ FixedTypeMembers
            /\ Occurrences(last.env, "LOGFWDR_SCHEMA: any;")
                  = IF counts["logfwdr"] > 0 THEN 1 ELSE 0
            /\ \A i \in 1..Len(vs) :
                  Cardinality({ j \in 1..Len(last.env) :
                                  StartsWith(last.env[j], vs[i].name \o ": ") })
                      = IF vs[i].value.null THEN 0 ELSE 1
            /\ Len(last.env)
                  = others + (IF counts["logfwdr"] > 0 THEN 1 ELSE 0)
                           + NonNullVars(last.config)

\* C7 witness: a run for a configuration with more than one log-forwarding
\* binding emitted the one member for them.
C7_Witness ==
    /\ Ran
    /\ Len(Collection(last.config, "logfwdr")) > 1
    /\ last.env = <<"LOGFWDR_SCHEMA: any;">>

IsSpace(c) == c \in {" ", "\t", "\n"}

Min(S) == CHOOSE x \in S : \A y \in S : x <= y

\* the text with every run of white space made one space
RECURSIVE Squash(_)
Squash(text) ==
    LET spaces == { i \in 1..Len(text) : IsSpace(SubSeq(text, i, i)) }
    IN  IF spaces = {} THEN text
        ELSE LET i == Min(spaces)
                 after == { j \in (i + 1)..Len(text) : j \notin spaces }
                 j == IF after = {} THEN Len(text) + 1 ELSE Min(after)
             IN  SubSeq(text, 1, i - 1) \o " " \o Squash(SubSeq(text, j, Len(text)))

Max(S) == CHOOSE x \in S : \A y \in S : y <= x

Positions(text, c) == { i \in 1..Len(text) : SubSeq(text, i, i) = c }

\* what follows the last dot of the glob, all of the glob when it has no dot
AfterLastDot(glob) ==
    LET dots == Positions(glob, ".")
    IN  SubSeq(glob, (IF dots = {} THEN 0 ELSE Max(dots)) + 1, Len(glob))

\* the extension of a glob: what follows the last dot of its last path segment,
\* nothing when that segment has no dot
ExtensionOf(glob) ==
    LET slashes == Positions(glob, "/")
        from == IF slashes = {} THEN 0 ELSE Max(slashes)
        dots == { i \in Positions(glob, ".") : i > from }
    IN  IF dots = {} THEN "" ELSE SubSeq(glob, Max(dots) + 1, Len(glob))

ClaimedModuleType(type) ==
    CASE type = "Text" -> "string"
      [] type = "Data" -> "ArrayBuffer"
      [] type = "CompiledWasm" -> "WebAssembly.Module"

ClaimedDeclaration(ext, type) ==
    "declare module \"*." \o ext \o "\" { const value: "
    \o ClaimedModuleType(type) \o "; export default value; }"

Recognised(rule) == rule.type \in {"Text", "Data", "CompiledWasm"}

RecognisedGlobs(rules) ==
    SumOver([r \in 1..Len(rules) |-> IF Recognised(rules[r]) THEN Len(rules[r].globs) ELSE 0],
            [r \in 1..Len(rules) |-> r])

SquashedModules == [i \in 1..Len(last.mods) |-> Squash(last.mods[i])]

\* C8 as claimed: every glob of a rule of type Text, Data or CompiledWasm yields
\* the one declaration `declare module "*.<ext>" { const value: T; export
\* default value; }` (white space aside) with T string, ArrayBuffer or
\* WebAssembly.Module and <ext> the extension of the glob; a rule of another
\* type yields nothing and no error; the declarations are as many as the globs
\* of the recognised rules.
C8_DeclarationsNameTheExtension ==
    Ran =>
        LET rules == Collection(last.config, "rules")
        IN  /\ SquashedModules
                  = Concat([r \in 1..Len(rules) |->
                              IF Recognised(rules[r])
                              THEN [g \in 1..Len(rules[r].globs) |->
                                      ClaimedDeclaration(ExtensionOf(rules[r].globs[g]),
                                                         rules[r].type)]
                              ELSE <<>>])
            /\ Len(last.mods) = RecognisedGlobs(rules)
            /\ ~last.error.thrown

\* C8 as amended: as claimed, but <ext> is what follows the last dot of the
\* glob: its extension when the glob ends in one, and all of the glob when it has
\* no dot.
C8_DeclarationsNameTheTextAfterTheLastDot ==
    Ran =>
        LET rules == Collection(last.config, "rules")
        IN  /\ SquashedModules
                  = Concat([r \in 1..Len(rules) |->
                              IF Recognised(rules[r])
                              THEN [g \in 1..Len(rules[r].globs) |->
                                      ClaimedDeclaration(AfterLastDot(rules[r].globs[g]),
                                                         rules[r].type)]
                              ELSE <<>>])
            /\ Len(last.mods) = RecognisedGlobs(rules)
            /\ ~last.error.thrown

\* C8 witness: a run for a Text rule with the globs **/*.tar.gz and LICENSE
\* emitted the declarations for *.gz and for *.LICENSE.
C8_Witness ==
    /\ Ran
    /\ Collection(last.config, "rules")
          = <<[type |-> "Text", globs |-> <<"**/*.tar.gz", "LICENSE">>]>>
    /\ last.mods = << "declare module \"*.gz\" {\n\tconst value: string;\n\texport default value;\n}",
                      "declare module \"*.LICENSE\" {\n\tconst value: string;\n\texport default value;\n}" >>

(***************************************************************************)
(* The ownership check when the read fails, under SpecFault.               *)
(***************************************************************************)
\* the run went on to the emptiness test and the write
Proceeded ==
    /\ ~last'.error.thrown
    /\ last'.outcome = IF last'.env # <<>> \/ last'.mods # <<>> THEN "written" ELSE "skipped"
    /\ last'.outcome = "written" => fs'[0] = File(last'.written)

\* C9: with no file found the run goes on to the emptiness test and the write;
\* a read that fails with a file-system error other than file-not-found is
\* re-raised and nothing is written; a read that fails with file-not-found is
\* swallowed and the run goes on as if the file were absent; the foreign-file
\* UserError is never swallowed.
C9_OnlyNotFoundIsSwallowed ==
    [][ (GenerateTypes \/ GenerateTypesReadFails) =>
          /\ NothingFound(fs) => Proceeded
          /\ last'.read = "EACCES" =>
                /\ last'.outcome = "aborted"
                /\ last'.error.name = "Error"
                /\ fs' = fs
          /\ last'.read = "ENOENT" => Proceeded
          /\ (last'.read = "ok" /\ FindsForeign(fs)) =>
                /\ last'.outcome = "aborted"
                /\ last'.error = UserError(ForeignFileMessage)
                /\ fs' = fs ]_vars

====
